---- MODULE Spec2Model ----
(***************************************************************************)
(* Model of create_coreml_models.py: a module that creates the output     *)
(* directory at load time, defines seven model-construction functions and  *)
(* (when run as a script) calls them one after the other.                  *)
(*                                                                         *)
(* A path is a sequence of components, a file system is a function from    *)
(* paths to entries.  Every statement that calls into a library may raise; *)
(* nothing in the file catches an exception.  A save that raises is taken  *)
(* to leave the file system as it was.                                     *)
(***************************************************************************)
EXTENDS Integers, Sequences, FiniteSets, TLC

\* How many times the script is started in the same working directory.
MaxRuns == 2

-----------------------------------------------------------------------------
\* The seven functions, by name.

Arrhythmia == "create_arrhythmia_detection_model"
Troponin == "create_troponin_detection_model"
BP == "create_bp_estimation_model"
Fall == "create_fall_detection_model"
Activity == "create_activity_recognition_model"
SignalQuality == "create_signal_quality_model"
Glucose == "create_glucose_prediction_model"

Funcs == {Arrhythmia, Troponin, BP, Fall, Activity, SignalQuality, Glucose}

\* os.makedirs('CoreMLModels', exist_ok=True)
OutDir == <<"CoreMLModels">>

\* The file that holds the program, a bystander of every run.
ScriptFile == <<"create_coreml_models.py">>

\* keras.layers.Input(shape=..., name=...)
KerasInputName(f) ==
    CASE f = Arrhythmia -> "ecg_signal"
      [] f = Troponin -> "sensor_features"
      [] f = BP -> "ppg_ptt_signal"
      [] f = Fall -> "imu_data"
      [] f = Activity -> "activity_data"
      [] f = SignalQuality -> "signal_data"
      [] f = Glucose -> "glucose_history"

KerasInputShape(f) ==
    CASE f = Arrhythmia -> <<1000>>
      [] f = Troponin -> <<50>>
      [] f = BP -> <<200>>
      [] f = Fall -> <<100, 6>>
      [] f = Activity -> <<150, 3>>
      [] f = SignalQuality -> <<100>>
      [] f = Glucose -> <<60, 5>>

\* The name of the last layer of the Sequential model.
KerasOutputLayer(f) ==
    CASE f = Arrhythmia -> "arrhythmia_class"
      [] f = Troponin -> "troponin_level"
      [] f = BP -> "bp_values"
      [] f = Fall -> "fall_detection"
      [] f = Activity -> "activity_class"
      [] f = SignalQuality -> "quality_score"
      [] f = Glucose -> "glucose_forecast"

\* model.compile(optimizer='adam', loss=...)
Loss(f) ==
    CASE f = Arrhythmia -> "categorical_crossentropy"
      [] f = Troponin -> "mse"
      [] f = BP -> "mse"
      [] f = Fall -> "categorical_crossentropy"
      [] f = Activity -> "categorical_crossentropy"
      [] f = SignalQuality -> "binary_crossentropy"
      [] f = Glucose -> "mse"

\* A plausible slip: the fall model's converter input loses its channel axis.
ConvertInputs_FallFlat(f) ==
    CASE f = Arrhythmia -> << [name |-> "ecg_signal", shape |-> <<1, 1000>>] >>
      [] f = Troponin -> << [name |-> "sensor_features", shape |-> <<1, 50>>] >>
      [] f = BP -> << [name |-> "ppg_ptt_signal", shape |-> <<1, 200>>] >>
      [] f = Fall -> << [name |-> "imu_data", shape |-> <<1, 100>>] >>
      [] f = Activity -> << [name |-> "activity_data", shape |-> <<1, 150, 3>>] >>
      [] f = SignalQuality -> << [name |-> "signal_data", shape |-> <<1, 100>>] >>
      [] f = Glucose -> << [name |-> "glucose_history", shape |-> <<1, 60, 5>>] >>

\* ct.convert(model, inputs=[ct.TensorType(shape=..., name=...)], ...)
ConvertInputs(f) ==
    CASE f = Arrhythmia -> << [name |-> "ecg_signal", shape |-> <<1, 1000>>] >>
      [] f = Troponin -> << [name |-> "sensor_features", shape |-> <<1, 50>>] >>
      [] f = BP -> << [name |-> "ppg_ptt_signal", shape |-> <<1, 200>>] >>
      [] f = Fall -> << [name |-> "imu_data", shape |-> <<1, 100, 6>>] >>
      [] f = Activity -> << [name |-> "activity_data", shape |-> <<1, 150, 3>>] >>
      [] f = SignalQuality -> << [name |-> "signal_data", shape |-> <<1, 100>>] >>
      [] f = Glucose -> << [name |-> "glucose_history", shape |-> <<1, 60, 5>>] >>

\* ct.convert(..., outputs=[ct.TensorType(name=...)], ...)
ConvertOutputs(f) ==
    CASE f = Arrhythmia -> << [name |-> "arrhythmia_probability"] >>
      [] f = Troponin -> << [name |-> "troponin_ng_per_L"] >>
      [] f = BP -> << [name |-> "blood_pressure"] >>
      [] f = Fall -> << [name |-> "fall_probability"] >>
      [] f = Activity -> << [name |-> "activity_probability"] >>
      [] f = SignalQuality -> << [name |-> "signal_quality"] >>
      [] f = Glucose -> << [name |-> "glucose_predictions"] >>

\* coreml_model.author = ...
Author(f) == "LifeLens Medical AI"

\* coreml_model.version = ...
Version(f) == "1.0.0"

\* coreml_model.short_description = ...   (the BP text's plus-minus sign is
\* written +/- here)
ShortDescription(f) ==
    CASE f = Arrhythmia -> "ECG Arrhythmia Detection (AFib, VTach, PVCs)"
      [] f = Troponin -> "Troponin Level Detection (38ng/L sensitivity)"
      [] f = BP -> "Blood Pressure Estimation (+/-5 mmHg accuracy)"
      [] f = Fall -> "Emergency Fall Detection"
      [] f = Activity -> "Activity Recognition (Exercise/Sleep/Stress)"
      [] f = SignalQuality -> "Signal Quality Assessment"
      [] f = Glucose -> "Glucose Prediction (30-min forecast)"

\* A plausible slip: a copied function keeps the path of the one it was
\* copied from.
SavePath_Collide(f) ==
    CASE f = Arrhythmia -> <<"CoreMLModels", "ECG_Arrhythmia.mlmodel">>
      [] f = Troponin -> <<"CoreMLModels", "Troponin_Detection.mlmodel">>
      [] f = BP -> <<"CoreMLModels", "BP_Estimation.mlmodel">>
      [] f = Fall -> <<"CoreMLModels", "Fall_Detection.mlmodel">>
      [] f = Activity -> <<"CoreMLModels", "Fall_Detection.mlmodel">>
      [] f = SignalQuality -> <<"CoreMLModels", "Signal_Quality.mlmodel">>
      [] f = Glucose -> <<"CoreMLModels", "Glucose_Prediction.mlmodel">>

\* A plausible slip: one save leaves out the directory.
SavePath_NoDir(f) ==
    CASE f = Arrhythmia -> <<"CoreMLModels", "ECG_Arrhythmia.mlmodel">>
      [] f = Troponin -> <<"CoreMLModels", "Troponin_Detection.mlmodel">>
      [] f = BP -> <<"BP_Estimation.mlmodel">>
      [] f = Fall -> <<"CoreMLModels", "Fall_Detection.mlmodel">>
      [] f = Activity -> <<"CoreMLModels", "Activity_Recognition.mlmodel">>
      [] f = SignalQuality -> <<"CoreMLModels", "Signal_Quality.mlmodel">>
      [] f = Glucose -> <<"CoreMLModels", "Glucose_Prediction.mlmodel">>

\* coreml_model.save('CoreMLModels/<name>.mlmodel')
SavePath(f) ==
    CASE f = Arrhythmia -> <<"CoreMLModels", "ECG_Arrhythmia.mlmodel">>
      [] f = Troponin -> <<"CoreMLModels", "Troponin_Detection.mlmodel">>
      [] f = BP -> <<"CoreMLModels", "BP_Estimation.mlmodel">>
      [] f = Fall -> <<"CoreMLModels", "Fall_Detection.mlmodel">>
      [] f = Activity -> <<"CoreMLModels", "Activity_Recognition.mlmodel">>
      [] f = SignalQuality -> <<"CoreMLModels", "Signal_Quality.mlmodel">>
      [] f = Glucose -> <<"CoreMLModels", "Glucose_Prediction.mlmodel">>

\* print("Created <name>.mlmodel")   (the leading check mark is left out)
PrintedName(f) ==
    CASE f = Arrhythmia -> "ECG_Arrhythmia.mlmodel"
      [] f = Troponin -> "Troponin_Detection.mlmodel"
      [] f = BP -> "BP_Estimation.mlmodel"
      [] f = Fall -> "Fall_Detection.mlmodel"
      [] f = Activity -> "Activity_Recognition.mlmodel"
      [] f = SignalQuality -> "Signal_Quality.mlmodel"
      [] f = Glucose -> "Glucose_Prediction.mlmodel"

-----------------------------------------------------------------------------
\* The program text, as statement lists.

\* A plausible slip: the directory is no longer created when the module loads.
ModuleBody_NoMakedirs == <<"imports", "defs", "main">>

\* The top level of the module: the imports, os.makedirs, the seven def
\* statements, and the if __name__ == "__main__" block.
ModuleBody == <<"imports", "makedirs", "defs", "main">>

Rule == "=================================================="

\* A plausible slip: two calls of the driver change places.
Main_Swapped ==
    << [op |-> "print", arg |-> "Creating Core ML models for LifeLens..."],
       [op |-> "print", arg |-> Rule],
       [op |-> "call", arg |-> Arrhythmia],
       [op |-> "call", arg |-> Troponin],
       [op |-> "call", arg |-> Fall],
       [op |-> "call", arg |-> BP],
       [op |-> "call", arg |-> Activity],
       [op |-> "call", arg |-> SignalQuality],
       [op |-> "call", arg |-> Glucose],
       [op |-> "print", arg |-> Rule],
       [op |-> "print", arg |-> "All Core ML models created successfully!"],
       [op |-> "print", arg |-> "Models saved in: CoreMLModels/"],
       [op |-> "print", arg |-> "Next steps:"],
       [op |-> "print", arg |-> "1. Add CoreMLModels folder to Xcode project"],
       [op |-> "print", arg |-> "2. Ensure 'Copy items if needed' is checked"],
       [op |-> "print", arg |-> "3. Models will be compiled automatically by Xcode"] >>

\* The body of the if __name__ == "__main__" block (the glyphs that open two
\* of the printed lines, and the line break before "Next steps:", are left
\* out).
Main ==
    << [op |-> "print", arg |-> "Creating Core ML models for LifeLens..."],
       [op |-> "print", arg |-> Rule],
       [op |-> "call", arg |-> Arrhythmia],
       [op |-> "call", arg |-> Troponin],
       [op |-> "call", arg |-> BP],
       [op |-> "call", arg |-> Fall],
       [op |-> "call", arg |-> Activity],
       [op |-> "call", arg |-> SignalQuality],
       [op |-> "call", arg |-> Glucose],
       [op |-> "print", arg |-> Rule],
       [op |-> "print", arg |-> "All Core ML models created successfully!"],
       [op |-> "print", arg |-> "Models saved in: CoreMLModels/"],
       [op |-> "print", arg |-> "Next steps:"],
       [op |-> "print", arg |-> "1. Add CoreMLModels folder to Xcode project"],
       [op |-> "print", arg |-> "2. Ensure 'Copy items if needed' is checked"],
       [op |-> "print", arg |-> "3. Models will be compiled automatically by Xcode"] >>

\* A plausible slip: the file is saved before the last metadata field is set.
Body_SaveEarly(f) ==
    <<"define", "compile", "convert", "author", "short_description", "save",
      "version", "print", "return">>

\* A plausible slip: the message is printed before the file is saved.
Body_PrintEarly(f) ==
    <<"define", "compile", "convert", "author", "short_description", "version",
      "print", "save", "return">>

\* The body of create_<f>: keras.Sequential, model.compile, ct.convert, the
\* three metadata assignments, save, print, return.  The seven bodies have
\* the same statements and differ in their arguments only.
Body(f) ==
    <<"define", "compile", "convert", "author", "short_description", "version",
      "save", "print", "return">>

\* A plausible slip: a try/except around the function body swallows the error.
Propagate_Caught(p) == IF p = "fn" THEN "idle" ELSE "error"

\* Where control goes when a statement raises at position p: nothing catches
\* it, the process ends with a traceback.
Propagate(p) == "error"

\* Straight-line sequencing: the statement after the i-th.
AfterStmt(i) == i + 1

\* A plausible slip: the driver retries the call it returned from.
ResumeAfterCall_Again(i) == i

\* Where the driver goes on when the call at statement i has returned: the
\* calls stand one below the other, outside any loop.
ResumeAfterCall(i) == i + 1

-----------------------------------------------------------------------------
\* Values.

\* No Keras model yet.
NoModel ==
    [defined |-> FALSE, input_name |-> "", input_shape |-> <<>>,
     output_layer |-> "", compiled |-> FALSE, optimizer |-> "", loss |-> "",
     fitted |-> FALSE]

\* No Core ML model yet.
NoCoreML ==
    [defined |-> FALSE, source |-> NoModel, inputs |-> <<>>, outputs |-> <<>>,
     target |-> "", compute_units |-> "", author |-> "",
     short_description |-> "", version |-> ""]

\* keras.Sequential([keras.layers.Input(shape=..., name=...), ...])
Sequential(f) ==
    [defined |-> TRUE, input_name |-> KerasInputName(f),
     input_shape |-> KerasInputShape(f), output_layer |-> KerasOutputLayer(f),
     compiled |-> FALSE, optimizer |-> "", loss |-> "", fitted |-> FALSE]

\* model.compile(optimizer='adam', loss=...)
Compiled(m, f) == [m EXCEPT !.compiled = TRUE, !.optimizer = "adam", !.loss = Loss(f)]

\* ct.convert(model, inputs=..., outputs=..., minimum_deployment_target=
\* ct.target.iOS15, compute_units=ct.ComputeUnit.ALL)
Converted(m, f) ==
    [defined |-> TRUE, source |-> m, inputs |-> ConvertInputs(f),
     outputs |-> ConvertOutputs(f), target |-> "iOS15", compute_units |-> "ALL",
     author |-> "", short_description |-> "", version |-> ""]

-----------------------------------------------------------------------------
\* The file system.

Dir == [kind |-> "dir", data |-> NoCoreML]
File(d) == [kind |-> "file", data |-> d]

NoFiles == [p \in {} |-> Dir]

IsDir(fsys, p) == p \in DOMAIN fsys /\ fsys[p].kind = "dir"
IsFile(fsys, p) == p \in DOMAIN fsys /\ fsys[p].kind = "file"

Put(fsys, p, e) == [q \in DOMAIN fsys \cup {p} |-> IF q = p THEN e ELSE fsys[q]]

Parent(p) == SubSeq(p, 1, Len(p) - 1)

\* The working directory itself (the empty path) always exists.
ParentIsDir(fsys, p) == Parent(p) = <<>> \/ IsDir(fsys, Parent(p))

\* A plausible slip: exist_ok is left out.
MakedirsRaises_NoExistOk(fsys) == OutDir \in DOMAIN fsys

\* os.makedirs(path, exist_ok=True) raises FileExistsError only when the
\* path exists and is not a directory.
MakedirsRaises(fsys) == OutDir \in DOMAIN fsys /\ ~IsDir(fsys, OutDir)

\* os.makedirs creates the directory when it is missing.
Makedirs(fsys) == IF OutDir \in DOMAIN fsys THEN fsys ELSE Put(fsys, OutDir, Dir)

\* save opens the path for writing: the parent must be a directory and the
\* path itself must not be one.
SaveRaises(fsys, p) == ~ParentIsDir(fsys, p) \/ IsDir(fsys, p)

\* save writes the serialized model to the path, replacing what was there.
Saved(fsys, p, d) == Put(fsys, p, File(d))

-----------------------------------------------------------------------------
\* The state.

VARIABLES
    mode,           \* "script": __name__ == "__main__"; "import": loaded by a client
    pc,             \* "module", "main", "fn", "idle", "done", "error"
    mp,             \* the statement of ModuleBody being executed
    ip,             \* the statement of Main being executed (0: none)
    sp,             \* the statement of Body(cur) being executed (0: none)
    cur,            \* the function being executed ("": none)
    defined,        \* the seven def statements have been executed
    model,          \* the local variable model of the running function
    coreml_model,   \* the local variable coreml_model of the running function
    fs,             \* the file system: path -> entry
    writes,         \* the paths this process has written, in order
    started,        \* the functions this process has entered, in order
    stdout,         \* what this process has printed, in order
    exc,            \* the exception that ended this process ("none": none)
    failedAt,       \* <<who, statement>> that raised (<<>>: none)
    run,            \* the number of this process among the runs
    completedRuns   \* how many earlier or current runs reached the end of Main

vars ==
    <<mode, pc, mp, ip, sp, cur, defined, model, coreml_model, fs, writes,
      started, stdout, exc, failedAt, run, completedRuns>>

\* What one process owns, as it is when the interpreter starts.
FreshProcess ==
    /\ pc = "module"
    /\ mp = 1
    /\ ip = 0
    /\ sp = 0
    /\ cur = ""
    /\ defined = FALSE
    /\ model = NoModel
    /\ coreml_model = NoCoreML
    /\ writes = <<>>
    /\ started = <<>>
    /\ stdout = <<>>
    /\ exc = "none"
    /\ failedAt = <<>>

\* The working directory holds the program file; the output directory is
\* missing, or is an (empty) directory, or its name is taken by a plain file.
InitialFileSystems ==
    LET base == Put(NoFiles, ScriptFile, File(NoCoreML))
    IN  {base, Put(base, OutDir, Dir), Put(base, OutDir, File(NoCoreML))}

Init ==
    /\ mode \in {"script", "import"}
    /\ fs \in InitialFileSystems
    /\ run = 1
    /\ completedRuns = 0
    /\ FreshProcess

\* A statement raises: the exception propagates, nothing else changes.
Throw(kind, who, stmt) ==
    /\ pc' = Propagate(pc)
    /\ exc' = kind
    /\ failedAt' = <<who, stmt>>
    /\ UNCHANGED <<mode, mp, ip, sp, cur, defined, model, coreml_model, fs,
                   writes, started, stdout, run, completedRuns>>

-----------------------------------------------------------------------------
\* The module's top level.

\* import coremltools as ct ... from tensorflow import keras
Imports ==
    /\ pc = "module" /\ mp \in 1..Len(ModuleBody) /\ ModuleBody[mp] = "imports"
    /\ mp' = AfterStmt(mp)
    /\ UNCHANGED <<mode, pc, ip, sp, cur, defined, model, coreml_model, fs,
                   writes, started, stdout, exc, failedAt, run, completedRuns>>

\* os.makedirs('CoreMLModels', exist_ok=True)
MakedirsStmt ==
    /\ pc = "module" /\ mp \in 1..Len(ModuleBody) /\ ModuleBody[mp] = "makedirs"
    /\ IF MakedirsRaises(fs)
       THEN Throw("FileExistsError", "module", "makedirs")
       ELSE /\ fs' = Makedirs(fs)
            /\ mp' = AfterStmt(mp)
            /\ UNCHANGED <<mode, pc, ip, sp, cur, defined, model, coreml_model,
                           writes, started, stdout, exc, failedAt, run,
                           completedRuns>>

\* def create_..._model(): ...   (seven of them)
Defs ==
    /\ pc = "module" /\ mp \in 1..Len(ModuleBody) /\ ModuleBody[mp] = "defs"
    /\ defined' = TRUE
    /\ mp' = AfterStmt(mp)
    /\ UNCHANGED <<mode, pc, ip, sp, cur, model, coreml_model, fs, writes,
                   started, stdout, exc, failedAt, run, completedRuns>>

\* if __name__ == "__main__":
MainGuard ==
    /\ pc = "module" /\ mp \in 1..Len(ModuleBody) /\ ModuleBody[mp] = "main"
    /\ IF mode = "script"
       THEN pc' = "main" /\ ip' = 1
       ELSE pc' = "idle" /\ ip' = 0
    /\ mp' = AfterStmt(mp)
    /\ UNCHANGED <<mode, sp, cur, defined, model, coreml_model, fs, writes,
                   started, stdout, exc, failedAt, run, completedRuns>>

-----------------------------------------------------------------------------
\* The driver.

\* print(...)
MainPrint ==
    /\ pc = "main" /\ ip \in 1..Len(Main) /\ Main[ip].op = "print"
    /\ stdout' = Append(stdout, [tag |-> "text", text |-> Main[ip].arg])
    /\ ip' = AfterStmt(ip)
    /\ UNCHANGED <<mode, pc, mp, sp, cur, defined, model, coreml_model, fs,
                   writes, started, exc, failedAt, run, completedRuns>>

\* Entering function f: its locals are unbound.
Enter(f) ==
    /\ IF defined
       THEN /\ pc' = "fn"
            /\ cur' = f
            /\ sp' = 1
            /\ started' = Append(started, f)
            /\ model' = NoModel
            /\ coreml_model' = NoCoreML
            /\ UNCHANGED <<exc, failedAt>>
       ELSE /\ pc' = Propagate(pc)
            /\ exc' = "NameError"
            /\ failedAt' = <<"caller", f>>
            /\ UNCHANGED <<cur, sp, started, model, coreml_model>>
    /\ UNCHANGED <<mode, mp, ip, defined, fs, writes, stdout, run, completedRuns>>

\* create_..._model()
MainCall ==
    /\ pc = "main" /\ ip \in 1..Len(Main) /\ Main[ip].op = "call"
    /\ Enter(Main[ip].arg)

\* The end of the file: the interpreter exits with status 0.
MainEnd ==
    /\ pc = "main" /\ ip = Len(Main) + 1
    /\ pc' = "done"
    /\ completedRuns' = completedRuns + 1
    /\ UNCHANGED <<mode, mp, ip, sp, cur, defined, model, coreml_model, fs,
                   writes, started, stdout, exc, failedAt, run>>

\* A client that imported the module calls one of its functions (each at
\* most once, in an order of its choosing).
ClientCall ==
    /\ pc = "idle" /\ mode = "import" /\ exc = "none"
    /\ \E f \in Funcs :
          /\ \A i \in 1..Len(started) : started[i] # f
          /\ Enter(f)

-----------------------------------------------------------------------------
\* The statements of a function body.

At(stmt) == pc = "fn" /\ sp \in 1..Len(Body(cur)) /\ Body(cur)[sp] = stmt

\* model = keras.Sequential([...])
Define ==
    /\ At("define")
    /\ model' = Sequential(cur)
    /\ sp' = AfterStmt(sp)
    /\ UNCHANGED <<mode, pc, mp, ip, cur, defined, coreml_model, fs, writes,
                   started, stdout, exc, failedAt, run, completedRuns>>

\* model.compile(optimizer='adam', loss=...)
Compile ==
    /\ At("compile")
    /\ IF ~model.defined
       THEN Throw("NameError", cur, "compile")
       ELSE /\ model' = Compiled(model, cur)
            /\ sp' = AfterStmt(sp)
            /\ UNCHANGED <<mode, pc, mp, ip, cur, defined, coreml_model, fs,
                           writes, started, stdout, exc, failedAt, run,
                           completedRuns>>

\* coreml_model = ct.convert(model, ...)
Convert ==
    /\ At("convert")
    /\ IF ~model.defined
       THEN Throw("NameError", cur, "convert")
       ELSE /\ coreml_model' = Converted(model, cur)
            /\ sp' = AfterStmt(sp)
            /\ UNCHANGED <<mode, pc, mp, ip, cur, defined, model, fs, writes,
                           started, stdout, exc, failedAt, run, completedRuns>>

\* One of the three metadata assignments.
SetField(stmt, new) ==
    /\ At(stmt)
    /\ IF ~coreml_model.defined
       THEN Throw("NameError", cur, stmt)
       ELSE /\ coreml_model' = new
            /\ sp' = AfterStmt(sp)
            /\ UNCHANGED <<mode, pc, mp, ip, cur, defined, model, fs, writes,
                           started, stdout, exc, failedAt, run, completedRuns>>

\* coreml_model.author = 'LifeLens Medical AI'
SetAuthor ==
    SetField("author", [coreml_model EXCEPT !.author = Author(cur)])

\* coreml_model.short_description = ...
SetShortDescription ==
    SetField("short_description",
             [coreml_model EXCEPT !.short_description = ShortDescription(cur)])

\* coreml_model.version = '1.0.0'
SetVersion ==
    SetField("version", [coreml_model EXCEPT !.version = Version(cur)])

\* coreml_model.save('CoreMLModels/<name>.mlmodel')
Save ==
    /\ At("save")
    /\ IF ~coreml_model.defined
       THEN Throw("NameError", cur, "save")
       ELSE IF SaveRaises(fs, SavePath(cur))
       THEN Throw("FileNotFoundError", cur, "save")
       ELSE /\ fs' = Saved(fs, SavePath(cur), coreml_model)
            /\ writes' = Append(writes, SavePath(cur))
            /\ sp' = AfterStmt(sp)
            /\ UNCHANGED <<mode, pc, mp, ip, cur, defined, model, coreml_model,
                           started, stdout, exc, failedAt, run, completedRuns>>

\* print("Created <name>.mlmodel")
PrintCreated ==
    /\ At("print")
    /\ stdout' = Append(stdout, [tag |-> "Created", text |-> PrintedName(cur)])
    /\ sp' = AfterStmt(sp)
    /\ UNCHANGED <<mode, pc, mp, ip, cur, defined, model, coreml_model, fs,
                   writes, started, exc, failedAt, run, completedRuns>>

\* return coreml_model: back to the caller, the locals are gone.
Return ==
    /\ At("return")
    /\ IF mode = "script"
       THEN pc' = "main" /\ ip' = ResumeAfterCall(ip)
       ELSE pc' = "idle" /\ ip' = ip
    /\ sp' = 0
    /\ cur' = ""
    /\ model' = NoModel
    /\ coreml_model' = NoCoreML
    /\ UNCHANGED <<mode, mp, defined, fs, writes, started, stdout, exc,
                   failedAt, run, completedRuns>>

\* A statement that calls into a library (or writes to the terminal) raises
\* for a reason of the library's or the system's.
Raise ==
    \/ /\ pc = "module" /\ mp \in 1..Len(ModuleBody)
       /\ ModuleBody[mp] \in {"imports", "makedirs"}
       /\ Throw("external", "module", ModuleBody[mp])
    \/ /\ pc = "main" /\ ip \in 1..Len(Main) /\ Main[ip].op = "print"
       /\ Throw("external", "__main__", "print")
    \/ /\ pc = "fn" /\ sp \in 1..Len(Body(cur)) /\ Body(cur)[sp] # "return"
       /\ Throw("external", cur, Body(cur)[sp])

\* The script is started again in the same working directory.
Rerun ==
    /\ mode = "script" /\ pc \in {"done", "error"} /\ run < MaxRuns
    /\ run' = run + 1
    /\ pc' = "module"
    /\ mp' = 1
    /\ ip' = 0
    /\ sp' = 0
    /\ cur' = ""
    /\ defined' = FALSE
    /\ model' = NoModel
    /\ coreml_model' = NoCoreML
    /\ writes' = <<>>
    /\ started' = <<>>
    /\ stdout' = <<>>
    /\ exc' = "none"
    /\ failedAt' = <<>>
    /\ UNCHANGED <<mode, fs, completedRuns>>

\* One step of the interpreter.
Execute ==
    \/ Imports \/ MakedirsStmt \/ Defs \/ MainGuard
    \/ MainPrint \/ MainCall \/ MainEnd
    \/ Define \/ Compile \/ Convert
    \/ SetAuthor \/ SetShortDescription \/ SetVersion
    \/ Save \/ PrintCreated \/ Return
    \/ Raise

Next == Execute \/ ClientCall \/ Rerun

Spec == Init /\ [][Next]_vars

\* Every call returns or raises, so the interpreter always takes its step.
LiveSpec == Init /\ [][Next]_vars /\ WF_vars(Execute)

-----------------------------------------------------------------------------
\* Vocabulary of the properties.

IsPrefix(s, t) == Len(s) <= Len(t) /\ \A i \in 1..Len(s) : s[i] = t[i]

NoRepeat(s) == \A i, j \in 1..Len(s) : i # j => s[i] # s[j]

Range(s) == {s[i] : i \in 1..Len(s)}

\* arrhythmia, troponin, blood-pressure, fall, activity, signal-quality, glucose
ClaimedOrder == <<Arrhythmia, Troponin, BP, Fall, Activity, SignalQuality, Glucose>>

ClaimedNames ==
    <<"ECG_Arrhythmia.mlmodel", "Troponin_Detection.mlmodel",
      "BP_Estimation.mlmodel", "Fall_Detection.mlmodel",
      "Activity_Recognition.mlmodel", "Signal_Quality.mlmodel",
      "Glucose_Prediction.mlmodel">>

ClaimedShapes ==
    << <<1, 1000>>, <<1, 50>>, <<1, 200>>, <<1, 100, 6>>, <<1, 150, 3>>,
       <<1, 100>>, <<1, 60, 5>> >>

IndexOf(f) == CHOOSE i \in 1..Len(ClaimedOrder) : ClaimedOrder[i] = f

ClaimedPaths == {<<"CoreMLModels", ClaimedNames[i]>> : i \in 1..Len(ClaimedNames)}

\* The names printed after "Created", in order.
IsCreated(msg) == msg.tag = "Created"
Created == SelectSeq(stdout, IsCreated)

SummaryText == "All Core ML models created successfully!"
SummaryPrinted == \E i \in 1..Len(stdout) : stdout[i].tag = "text" /\ stdout[i].text = SummaryText

\* The paths below the output directory.
Under(p) == Len(p) > 1 /\ p[1] = "CoreMLModels"
Listing(fsys) == {p \in DOMAIN fsys : Under(p)}

\* What the file of function f holds, whatever happened before f was called.
Artifact(f) ==
    [defined |-> TRUE,
     source |-> [defined |-> TRUE, input_name |-> KerasInputName(f),
                 input_shape |-> KerasInputShape(f),
                 output_layer |-> KerasOutputLayer(f), compiled |-> TRUE,
                 optimizer |-> "adam", loss |-> Loss(f), fitted |-> FALSE],
     inputs |-> ConvertInputs(f), outputs |-> ConvertOutputs(f),
     target |-> "iOS15", compute_units |-> "ALL",
     author |-> "LifeLens Medical AI",
     short_description |-> ShortDescription(f), version |-> "1.0.0"]

Terminated == pc \in {"done", "error"}

-----------------------------------------------------------------------------
\* C1: run as the main program, the driver starts the seven functions once
\* each in the order arrhythmia, troponin, blood-pressure, fall, activity,
\* signal-quality, glucose: the functions started so far are a prefix of
\* that order without repetition, and a run that ends normally started all.
C1_DriverOrder ==
    mode = "script" =>
        /\ IsPrefix(started, ClaimedOrder)
        /\ NoRepeat(started)
        /\ (pc = "done" => started = ClaimedOrder)

C1_Witness == mode = "script" /\ pc = "done" /\ started = ClaimedOrder /\ run = 1

\* C2: in every function the steps run define, compile, convert, metadata,
\* save, and nothing is trained: conversion sees a compiled model, save sees
\* a converted model with author, short_description and version set, and
\* every model file on disk carries author 'LifeLens Medical AI' and
\* version '1.0.0'.
C2_StepsInOrder ==
    /\ ~model.fitted
    /\ \A f \in Funcs : \A i \in 1..Len(Body(f)) : Body(f)[i] # "fit"
    /\ (coreml_model.defined => coreml_model.source.compiled)
    /\ (At("save") =>
            /\ coreml_model.defined
            /\ coreml_model.author = "LifeLens Medical AI"
            /\ coreml_model.short_description # ""
            /\ coreml_model.version = "1.0.0")
    /\ \A p \in Listing(fs) :
            /\ fs[p].kind = "file"
            /\ fs[p].data.defined
            /\ fs[p].data.source.compiled
            /\ ~fs[p].data.source.fitted
            /\ fs[p].data.author = "LifeLens Medical AI"
            /\ fs[p].data.short_description # ""
            /\ fs[p].data.version = "1.0.0"

C2_Witness == At("print") /\ cur = Glucose /\ IsFile(fs, SavePath(Glucose))

\* C3: an exception ends the process where it was raised.  When a step
\* before the print of the k-th model raises in a script run, exactly the
\* first k functions were started, exactly the first k-1 'Created' messages
\* and files were produced, the summary was not printed, the raising step
\* changed no file, and nothing happens afterwards in that process.
C3_FailureStops ==
    /\ [](exc # "none" =>
            /\ pc = "error"
            /\ (mode = "script" /\ failedAt[1] \in Funcs
                /\ failedAt[2] \in {"define", "compile", "convert", "author",
                                    "short_description", "version", "save"}) =>
                  LET k == IndexOf(failedAt[1])
                  IN  /\ started = SubSeq(ClaimedOrder, 1, k)
                      /\ Len(Created) = k - 1
                      /\ \A i \in 1..(k - 1) : Created[i].text = ClaimedNames[i]
                      /\ ~SummaryPrinted
                      /\ Len(writes) = k - 1
                      /\ \A i \in 1..(k - 1) :
                            /\ writes[i] = <<"CoreMLModels", ClaimedNames[i]>>
                            /\ fs[writes[i]] = File(Artifact(ClaimedOrder[i])))
    /\ [][(exc = "none" /\ exc' # "none") =>
            (fs' = fs /\ stdout' = stdout /\ started' = started /\ writes' = writes)]_vars
    /\ [][(exc # "none" /\ run' = run) => UNCHANGED vars]_vars

C3_Witness ==
    /\ mode = "script" /\ pc = "error" /\ exc = "external"
    /\ failedAt = <<Fall, "save">>
    /\ Len(writes) = IndexOf(Fall) - 1

\* C4: every write goes to a path below CoreMLModels, no step creates,
\* changes or removes anything outside that directory, and a script run that
\* ends without a failure leaves exactly the seven named model files there,
\* each written once by that run.
C4_OnlyOutputDir ==
    /\ [](/\ \A i \in 1..Len(writes) : Under(writes[i])
          /\ (mode = "script" /\ pc = "done") =>
                /\ Listing(fs) = ClaimedPaths
                /\ Len(writes) = Len(ClaimedNames)
                /\ Range(writes) = ClaimedPaths)
    /\ [][\A p \in (DOMAIN fs) \cup (DOMAIN fs') :
            (~Under(p) /\ p # OutDir) =>
                (p \in DOMAIN fs /\ p \in DOMAIN fs' /\ fs'[p] = fs[p])]_vars
    /\ [][(OutDir \in DOMAIN fs) =>
            (OutDir \in DOMAIN fs' /\ fs'[OutDir] = fs[OutDir])]_vars

C4_Witness ==
    /\ mode = "script" /\ pc = "done" /\ run = 1
    /\ Listing(fs) = ClaimedPaths /\ IsFile(fs, ScriptFile)

\* C5: the seven functions write seven different paths, and what a function
\* leaves at its path does not depend on which functions ran before it: once
\* a function has returned, its file holds that function's own artifact, and
\* after all seven have returned, in whatever order, the directory holds the
\* same seven files.
C5_OrderIndependent ==
    /\ \A f, g \in Funcs : f # g => SavePath(f) # SavePath(g)
    /\ \A i \in 1..Len(started) :
          (i < Len(started) \/ pc \in {"idle", "main", "done"}) =>
              /\ SavePath(started[i]) \in DOMAIN fs
              /\ fs[SavePath(started[i])] = File(Artifact(started[i]))
    /\ (Len(started) = Cardinality(Funcs) /\ pc \in {"idle", "done"}) =>
          {<<p, fs[p]>> : p \in Listing(fs)}
              = {<<SavePath(f), File(Artifact(f))>> : f \in Funcs}

C5_Witness ==
    /\ mode = "import" /\ pc = "idle"
    /\ started = <<Glucose, Fall, Arrhythmia, SignalQuality, BP, Activity, Troponin>>

\* How far a script run has come: the module statement, the driver statement
\* and the function statement, read as one number; a terminal state is last.
Rank ==
    (IF Terminated THEN 100000 ELSE 0) + 1000 * mp + 20 * ip + sp

\* C6: a script run ends.  Given that every call returns or raises, a run
\* that has not ended reaches 'done' (all seven saved, summary printed) or
\* 'error' (an uncaught exception); it starts at most seven model creations,
\* and every step takes it forward, never back to an earlier statement.
C6_RunsToCompletion ==
    /\ [](Len(started) <= Cardinality(Funcs))
    /\ [](mode = "script" /\ pc = "done" =>
            (Listing(fs) = ClaimedPaths /\ SummaryPrinted /\ exc = "none"))
    /\ [][(mode = "script" /\ run' = run) => Rank' > Rank]_vars
    /\ ((mode = "script" /\ ~Terminated) ~> Terminated)

C6_Witness ==
    /\ mode = "script" /\ Terminated /\ exc = "none"
    /\ SummaryPrinted /\ Len(started) = Cardinality(Funcs)

\* C7 as stated: the summary is printed only with all seven files saved, a
\* 'Created <file>' message only after the save of that file, the messages
\* are a prefix of the driver order, and their number equals the number of
\* files saved so far in the run.
C7_CreatedEqualsSaved ==
    /\ (SummaryPrinted => Range(writes) = ClaimedPaths)
    /\ \A i \in 1..Len(Created) : <<"CoreMLModels", Created[i].text>> \in Range(writes)
    /\ (mode = "script" =>
            /\ Len(Created) <= Len(ClaimedNames)
            /\ \A i \in 1..Len(Created) : Created[i].text = ClaimedNames[i])
    /\ Len(Created) = Len(writes)

\* C7 amended: as above, but the number of 'Created' messages equals the
\* number of files saved so far or is one less; it is one less exactly while
\* the function that saved the last file stands at its print statement, or
\* after that print raised.
C7_CreatedFollowsSaved ==
    /\ (SummaryPrinted => Range(writes) = ClaimedPaths)
    /\ \A i \in 1..Len(Created) : <<"CoreMLModels", Created[i].text>> = writes[i]
    /\ (mode = "script" =>
            /\ Len(Created) <= Len(ClaimedNames)
            /\ \A i \in 1..Len(Created) : Created[i].text = ClaimedNames[i])
    /\ Len(Created) \in {Len(writes), Len(writes) - 1}
    /\ (Len(Created) = Len(writes) - 1 <=>
            \/ At("print")
            \/ (pc = "error" /\ failedAt = <<cur, "print">>))

C7_Witness ==
    /\ SummaryPrinted /\ pc = "main"
    /\ Len(Created) = Len(ClaimedNames) /\ Len(writes) = Len(ClaimedNames)

\* C8: the output directory exists whenever a model function can be called
\* or is running, under the driver and under a client that imported the
\* module alike, so no save fails for want of it; a module that was imported
\* and not used has created the directory and written no model file.
C8_DirBeforeSave ==
    /\ (defined => IsDir(fs, OutDir))
    /\ (pc = "fn" => IsDir(fs, OutDir))
    /\ exc # "FileNotFoundError"
    /\ (mode = "import" /\ pc = "idle" /\ started = <<>>) =>
          (IsDir(fs, OutDir) /\ writes = <<>> /\ Listing(fs) = {})

C8_Witness ==
    /\ mode = "import" /\ At("save") /\ cur = BP /\ started = <<BP>>
    /\ IsDir(fs, OutDir)

\* C9: once a run has completed, a later run in the same working directory
\* never fails on the directory or a file being there already, and the
\* directory holds the same seven file names throughout and after it.
C9_SecondRunSameFiles ==
    completedRuns >= 1 =>
        /\ exc \in {"none", "external"}
        /\ Listing(fs) = ClaimedPaths
        /\ \A p \in Listing(fs) : fs[p].kind = "file"

C9_Witness == run = 2 /\ completedRuns = 2 /\ pc = "done"

\* C10: the input declared to the converter is the Keras input: one input,
\* named as the Keras Input layer, shaped as the Keras input behind a batch
\* dimension of 1 (the seven shapes as listed), and one named output.
C10_ConverterInputAgrees ==
    (pc = "fn" /\ coreml_model.defined) =>
        LET ins == coreml_model.inputs
            outs == coreml_model.outputs
            src == coreml_model.source
        IN  /\ Len(ins) = 1
            /\ ins[1].name = src.input_name
            /\ ins[1].shape = <<1>> \o src.input_shape
            /\ ins[1].shape = ClaimedShapes[IndexOf(cur)]
            /\ Len(outs) = 1
            /\ outs[1].name # ""

C10_Witness ==
    /\ At("save") /\ cur = Fall /\ coreml_model.defined
    /\ coreml_model.inputs[1].shape = <<1, 100, 6>>

====
